---- MODULE Spec2Model ----
(***************************************************************************)
(* A model of scripts/receive.py (DigitalScope receiver).                  *)
(*                                                                         *)
(* Two execution contexts share the module-level queue q and the           *)
(* module-level flag done:                                                 *)
(*   - the reader thread (serial.threaded.ReaderThread driving the         *)
(*     SerialIO protocol object): it reads the link, cuts it into lines    *)
(*     and calls SerialIO.handle_line for each; when its loop ends it      *)
(*     calls SerialIO.connection_lost;                                     *)
(*   - the main thread: the poll loop of main(), in which the SIGINT       *)
(*     handler signal_handler may run between any two statements.          *)
(*                                                                         *)
(* A line is a sequence of atoms; the atom " " is one space character and  *)
(* every other atom is a run of non-space characters.                      *)
(***************************************************************************)
EXTENDS Integers, Sequences, FiniteSets, TLC

\* ------------------------------------------------------------------ bounds

\* Lines the link delivers in one run.
MaxLines == 2
\* Tokens of the longest DATA payload the link delivers.
MaxTokens == 4
\* Distinct values of the 8-character identifier prefix.
MaxIds == 2
\* Interrupt signals delivered in one run.
MaxSignals == 2

\* ------------------------------------------------------------------ inputs

SP == " "

\* The stream of integers a device sends: timestamp, state, timestamp, ...
DeviceStream == <<"0", "1", "100", "0", "250", "1", "400", "0">>

\* The same stream with a state that is neither 0 nor 1.
OddStateStream == <<"0", "1", "100", "7", "250", "1", "400", "0">>

Prefixes(s) == { SubSeq(s, 1, k) : k \in 0..MaxTokens }

\* s with its i-th token replaced by a token that is no integer.
Garbled(s, i) == [ j \in 1..Len(s) |-> IF j = i THEN "x" ELSE s[j] ]

TokenRuns ==
    LET good == Prefixes(DeviceStream) \cup Prefixes(OddStateStream)
    IN  good \cup { Garbled(s, i) : s \in Prefixes(DeviceStream), i \in {1, MaxTokens} }

RECURSIVE Join(_)
\* The tokens written on the wire, one space between two tokens.
Join(toks) ==
    IF toks = <<>> THEN <<>>
    ELSE IF Len(toks) = 1 THEN toks
    ELSE <<Head(toks), SP>> \o Join(Tail(toks))

Tags == { <<>>, <<"LOG">>, <<"DATA">>, <<"FOO">> }

\* What may stand between the tag and the payload on the wire: nothing, one
\* space, or a run of two spaces.
Separators == { <<>>, <<SP>>, <<SP, SP>> }

\* The lines the link may deliver: DATA lines with a run of tokens as payload,
\* and, for every tag, lines with a text payload, an empty payload or no
\* separator at all.

Lines ==
    { <<"DATA", SP>> \o Join(toks) : toks \in TokenRuns }
    \cup
    { tag \o sep \o text : tag \in Tags, sep \in Separators, text \in { <<"hello">> } }
    \cup
    { tag \o sep : tag \in Tags, sep \in { <<>>, <<SP>> } }

Ids == 1..MaxIds

\* ---------------------------------------------------------- pure functions

\* The index of the first space of line, 0 when it has none.
FirstSpace(line) ==
    IF \E i \in 1..Len(line) : line[i] = SP
    THEN CHOOSE i \in 1..Len(line) :
            /\ line[i] = SP
            /\ \A j \in 1..(i - 1) : line[j] # SP
    ELSE 0

RECURSIVE split_every_space(_)
\* A plausible slip: line.split(" "), which cuts at every space character.
split_every_space(line) ==
    LET i == FirstSpace(line)
    IN  IF i = 0 THEN <<line>>
        ELSE <<SubSeq(line, 1, i - 1)>> \o split_every_space(SubSeq(line, i + 1, Len(line)))

\* line.split(" ", 1): cut at the first space character and nowhere else.
split(line) ==
    LET i == FirstSpace(line)
    IN  IF i = 0 THEN <<line>>
        ELSE <<SubSeq(line, 1, i - 1), SubSeq(line, i + 1, Len(line))>>

\* A plausible slip: a misspelt key, so that DATA falls to the default.
choice_key_typo(tag) ==
    IF tag = <<"LOG">> THEN "onLog"
    ELSE IF tag = <<"DATA", ":">> THEN "onData"
    ELSE "onUnknown"

\* A plausible slip: the capture handler as the default of the table.
choice_default_data(tag) ==
    IF tag = <<"LOG">> THEN "onLog"
    ELSE "onData"

\* The dispatch table of handle_line: {"LOG": onLog, "DATA": onData}.get(tag, onUnknown).
choice(tag) ==
    IF tag = <<"LOG">> THEN "onLog"
    ELSE IF tag = <<"DATA">> THEN "onData"
    ELSE "onUnknown"

\* The fields numpy.loadtxt reads: the runs of non-space characters.
Fields(data) == SelectSeq(data, LAMBDA a : a # SP)

\* int(field) for the fields that hold a decimal integer.
IntOf(field) ==
    CASE field = "0" -> 0
      [] field = "1" -> 1
      [] field = "7" -> 7
      [] field = "100" -> 100
      [] field = "250" -> 250
      [] field = "400" -> 400

IsInt(field) == field \in {"0", "1", "7", "100", "250", "400"}

\* numpy.loadtxt(StringIO(data), dtype=int): the flat array of the integers
\* read, or a ValueError when a field is no integer.
loadtxt(data) ==
    LET f == Fields(data)
    IN  IF \E i \in 1..Len(f) : ~IsInt(f[i])
        THEN [ok |-> FALSE, arr |-> <<>>]
        ELSE [ok |-> TRUE, arr |-> [i \in 1..Len(f) |-> IntOf(f[i])]]

\* A plausible slip: the odd trailing value is dropped instead of rejected.
reshape_truncating(arr) ==
    [ok |-> TRUE,
     rows |-> [i \in 1..(Len(arr) \div 2) |-> <<arr[2 * i - 1], arr[2 * i]>>]]

\* A plausible slip: the state column is reduced to a truth value, 0 or 1.
reshape_binary(arr) ==
    IF Len(arr) % 2 # 0
    THEN [ok |-> FALSE, rows |-> <<>>]
    ELSE [ok |-> TRUE,
          rows |-> [i \in 1..(Len(arr) \div 2) |->
                       <<arr[2 * i - 1], IF arr[2 * i] = 0 THEN 0 ELSE 1>>]]

\* arr.reshape((-1, 2)): rows of two in the order read, or a ValueError when
\* the number of values is odd.
reshape(arr) ==
    IF Len(arr) % 2 # 0
    THEN [ok |-> FALSE, rows |-> <<>>]
    ELSE [ok |-> TRUE,
          rows |-> [i \in 1..(Len(arr) \div 2) |-> <<arr[2 * i - 1], arr[2 * i]>>]]

\* str(uuid.uuid4())[:8] + ".csv"
filename(id) == <<ToString(id), ".csv">>

\* -------------------------------------------------------------------- state

VARIABLES
    show_signal,  \* args.show_signal, fixed for the run
    q,            \* the module-level Queue(): the arrays put and not yet got
    done,         \* the module-level flag the poll loop tests
    files,        \* the files of args.out_dir: file name -> rows written
    out,          \* what the latest step of the reader thread printed, in order
    mout,         \* what the latest step of the main thread printed, in order
    alive,        \* ReaderThread.alive
    rpc,          \* reader thread: "run", "writing" (inside onData), "lost" (loop
                  \* left, callback due), "exited", "killed" (ended with the process)
    error,        \* the exception that ended the reader loop, "None" if none
    writing,      \* <<>>, or <<id>> while numpy.savetxt writes the file of that id
    is_open,      \* Serial.is_open
    mpc,          \* main thread: "loop", "get", "show", "sleep", "close", "join", "exited"
    arr,          \* main's local arr: <<>> or <<the array got>>
    enqueued,     \* history: every array put on q, in order
    rendered,     \* history: every array passed to showSignal, in order
    last,         \* history: the line the latest handle_line was called for
    calls,        \* history: the handlers the latest handle_line invoked
    writes,       \* history: the number of numpy.savetxt calls
    nlines,       \* history: the number of lines handled
    nsig          \* history: the number of interrupt signals delivered

hvars == <<files, q, enqueued, writes>>
rvars == <<alive, rpc, error, writing>>
mvars == <<mpc, arr, rendered>>
vars == <<show_signal, q, done, files, out, mout, alive, rpc, error, writing, is_open, mpc, arr,
          enqueued, rendered, last, calls, writes, nlines, nsig>>

\* One printed message: the format string and the value formatted into it.
Msg(fmt, arg) == [fmt |-> fmt, arg |-> arg]

Init ==
    /\ show_signal \in BOOLEAN
    /\ q = <<>>
    /\ done = FALSE
    /\ files = <<>>
    /\ out = <<Msg("Connection established", <<>>)>>
    /\ mout = <<Msg("Press Ctrl+C to quit", <<>>)>>
    /\ alive = TRUE
    /\ rpc = "run"
    /\ error = "None"
    /\ writing = <<>>
    /\ is_open = TRUE
    /\ mpc = "loop"
    /\ arr = <<>>
    /\ enqueued = <<>>
    /\ rendered = <<>>
    /\ last = <<>>
    /\ calls = <<>>
    /\ writes = 0
    /\ nlines = 0
    /\ nsig = 0

\* ------------------------------------------------------- the reader thread

\* SerialIO.onLog
onLog(msg) ==
    /\ calls' = <<"onLog">>
    /\ out' = <<Msg("ARDUINO {}", msg)>>
    /\ UNCHANGED <<hvars, writing>>

\* A plausible slip: the format call is left out and the text is printed as
\* it stands.
onUnknown_unformatted(data) ==
    /\ calls' = <<"onUnknown">>
    /\ out' = <<Msg("Unknown {}", <<>>)>>
    /\ UNCHANGED <<hvars, writing>>

\* SerialIO.onUnknown
onUnknown(data) ==
    /\ calls' = <<"onUnknown">>
    /\ out' = <<Msg("Unknown {}", data)>>
    /\ UNCHANGED <<hvars, writing>>

\* Whether SerialIO.onData(data) raises (the ValueError of loadtxt or reshape).
onDataRaises(data) ==
    \/ ~loadtxt(data).ok
    \/ ~reshape(loadtxt(data).arr).ok

\* SerialIO.onData up to the point where numpy.savetxt has opened the file
\* named by a fresh identifier: a payload that does not parse raises before;
\* the file is created, or emptied when the name exists, and its rows are not
\* written yet.
onData(data) ==
    /\ calls' = <<"onData">>
    /\ out' = <<>>
    /\ IF onDataRaises(data)
       THEN UNCHANGED <<hvars, writing>>
       ELSE \E id \in Ids :
              /\ writing' = <<id>>
              /\ files' = [n \in DOMAIN files \cup {filename(id)} |->
                              IF n = filename(id) THEN <<>> ELSE files[n]]
              /\ UNCHANGED <<q, enqueued, writes>>

\* Whether SerialIO.handle_line(line) raises.
handle_line_raises(line) ==
    LET args == split(line)
    IN  /\ Len(args) = 2
        /\ choice(args[1]) = "onData"
        /\ onDataRaises(args[2])

\* SerialIO.handle_line
handle_line(line) ==
    LET args == split(line)
    IN  IF Len(args) # 2
        THEN /\ calls' = <<>>
             /\ out' = <<>>
             /\ UNCHANGED <<hvars, writing>>
        ELSE CASE choice(args[1]) = "onLog" -> onLog(args[2])
               [] choice(args[1]) = "onData" -> onData(args[2])
               [] OTHER -> onUnknown(args[2])

\* A plausible slip: every line is handed to a handler of its own as soon as
\* it arrives, whether or not the handler of the line before has returned.
ReaderReceive_concurrent(line) ==
    /\ rpc \in {"run", "writing"}
    /\ alive
    /\ is_open
    /\ nlines < MaxLines
    /\ nlines' = nlines + 1
    /\ last' = line
    /\ handle_line(line)
    /\ IF handle_line_raises(line)
       THEN /\ rpc' = "lost"
            /\ error' = "ValueError"
       ELSE /\ rpc' = IF writing' # <<>> THEN "writing" ELSE "run"
            /\ UNCHANGED error
    /\ UNCHANGED <<show_signal, is_open, done, alive, mvars, mout, nsig>>

\* ReaderThread.run, one turn of its loop: a line arrives and handle_line is
\* called for it; an exception of the handler ends the loop.
ReaderReceive(line) ==
    /\ rpc = "run"
    /\ alive
    /\ is_open
    /\ nlines < MaxLines
    /\ nlines' = nlines + 1
    /\ last' = line
    /\ handle_line(line)
    /\ IF handle_line_raises(line)
       THEN /\ rpc' = "lost"
            /\ error' = "ValueError"
       ELSE /\ rpc' = IF writing' # <<>> THEN "writing" ELSE "run"
            /\ UNCHANGED error
    /\ UNCHANGED <<show_signal, is_open, done, alive, mvars, mout, nsig>>

\* A plausible slip: onData calls showSignal itself and hands nothing to the
\* main thread.
onDataReturn_shows ==
    /\ rpc = "writing"
    /\ LET rows == reshape(loadtxt(split(last)[2]).arr).rows
           name == filename(writing[1])
       IN  /\ files' = [files EXCEPT ![name] = rows]
           /\ writes' = writes + 1
           /\ out' = <<Msg("ARDUINO Data captured, saved to {}", name)>>
           /\ IF show_signal
              THEN /\ rendered' = Append(rendered, rows)
                   /\ enqueued' = Append(enqueued, rows)
              ELSE UNCHANGED <<rendered, enqueued>>
    /\ writing' = <<>>
    /\ rpc' = "run"
    /\ UNCHANGED <<show_signal, is_open, done, alive, error, q, mpc, arr, mout, calls, last, nlines, nsig>>

\* A plausible slip: the array is put on the queue whatever args.show_signal is.
onDataReturn_always_put ==
    /\ rpc = "writing"
    /\ LET rows == reshape(loadtxt(split(last)[2]).arr).rows
           name == filename(writing[1])
       IN  /\ files' = [files EXCEPT ![name] = rows]
           /\ writes' = writes + 1
           /\ out' = <<Msg("ARDUINO Data captured, saved to {}", name)>>
           /\ q' = Append(q, rows)
           /\ enqueued' = Append(enqueued, rows)
    /\ writing' = <<>>
    /\ rpc' = "run"
    /\ UNCHANGED <<show_signal, is_open, done, alive, error, mvars, mout, calls, last, nlines, nsig>>

\* A plausible slip: a queue of one place, Queue(1), filled with put_nowait
\* and queue.Full passed over.
onDataReturn_bounded ==
    /\ rpc = "writing"
    /\ LET rows == reshape(loadtxt(split(last)[2]).arr).rows
           name == filename(writing[1])
       IN  /\ files' = [files EXCEPT ![name] = rows]
           /\ writes' = writes + 1
           /\ out' = <<Msg("ARDUINO Data captured, saved to {}", name)>>
           /\ IF show_signal /\ q = <<>>
              THEN /\ q' = Append(q, rows)
                   /\ enqueued' = Append(enqueued, rows)
              ELSE UNCHANGED <<q, enqueued>>
    /\ writing' = <<>>
    /\ rpc' = "run"
    /\ UNCHANGED <<show_signal, is_open, done, alive, error, mvars, mout, calls, last, nlines, nsig>>

\* SerialIO.onData from the end of numpy.savetxt to its return: the rows are
\* in the file, the confirmation is printed and, when args.show_signal, the
\* array is put on the queue; the reader is back in its loop.
onDataReturn ==
    /\ rpc = "writing"
    /\ LET rows == reshape(loadtxt(split(last)[2]).arr).rows
           name == filename(writing[1])
       IN  /\ files' = [files EXCEPT ![name] = rows]
           /\ writes' = writes + 1
           /\ out' = <<Msg("ARDUINO Data captured, saved to {}", name)>>
           /\ IF show_signal
              THEN /\ q' = Append(q, rows)
                   /\ enqueued' = Append(enqueued, rows)
              ELSE UNCHANGED <<q, enqueued>>
    /\ writing' = <<>>
    /\ rpc' = "run"
    /\ UNCHANGED <<show_signal, is_open, done, alive, error, mvars, mout, calls, last, nlines, nsig>>

\* ReaderThread.run: the read of the link raises SerialException (the device
\* is unplugged) and the loop ends.
ReaderSerialError ==
    /\ rpc = "run"
    /\ alive
    /\ is_open
    /\ rpc' = "lost"
    /\ error' = "SerialException"
    /\ out' = <<>>
    /\ UNCHANGED <<show_signal, is_open, done, alive, writing, hvars, mvars, mout, calls, last, nlines, nsig>>

\* ReaderThread.run: the loop condition fails after stop() cleared alive.
ReaderStopped ==
    /\ rpc = "run"
    /\ ~alive
    /\ rpc' = "lost"
    /\ out' = <<>>
    /\ UNCHANGED <<show_signal, is_open, done, alive, error, writing, hvars, mvars, mout, calls, last, nlines, nsig>>

\* SerialIO.connection_lost, called by ReaderThread.run when its loop has
\* ended. The function has no "global done": its assignment binds a local
\* name that dies with the call, and the module-level done keeps its value.
connection_lost ==
    /\ rpc = "lost"
    /\ out' = IF error # "None"
              THEN <<Msg("Failed {}", <<error>>), Msg("Connection closed", <<>>)>>
              ELSE <<Msg("Connection closed", <<>>)>>
    /\ rpc' = "exited"
    /\ UNCHANGED <<show_signal, is_open, done, alive, error, writing, hvars, mvars, mout, calls, last, nlines, nsig>>

\* --------------------------------------------------------- the main thread

\* A plausible slip: the handler lacks its global statement, as
\* connection_lost does, and binds a local name.
signal_handler_local ==
    /\ mpc # "exited"
    /\ nsig < MaxSignals
    /\ nsig' = nsig + 1
    /\ mout' = <<Msg("Cleaning up...", <<>>)>>
    /\ UNCHANGED <<show_signal, is_open, done, hvars, out, rvars, mvars, calls, last, nlines>>

\* A plausible slip: the handler flips the flag, done = not done.
signal_handler_toggle ==
    /\ mpc # "exited"
    /\ nsig < MaxSignals
    /\ nsig' = nsig + 1
    /\ mout' = <<Msg("Cleaning up...", <<>>)>>
    /\ done' = ~done
    /\ UNCHANGED <<show_signal, is_open, hvars, out, rvars, mvars, calls, last, nlines>>

\* signal_handler, run in the main thread between two of its statements.
signal_handler ==
    /\ mpc # "exited"
    /\ nsig < MaxSignals
    /\ nsig' = nsig + 1
    /\ mout' = <<Msg("Cleaning up...", <<>>)>>
    /\ done' = TRUE
    /\ UNCHANGED <<show_signal, is_open, hvars, out, rvars, mvars, calls, last, nlines>>

\* A plausible slip: the loop goes on while captures wait on the queue.
MainLoop_drain ==
    /\ mpc = "loop"
    /\ mpc' = IF done /\ q = <<>> THEN "close" ELSE "get"
    /\ mout' = <<>>
    /\ UNCHANGED <<show_signal, is_open, done, hvars, out, rvars, arr, rendered, calls, last, nlines, nsig>>

\* main: the test of "while not done".
MainLoop ==
    /\ mpc = "loop"
    /\ mpc' = IF done THEN "close" ELSE "get"
    /\ mout' = <<>>
    /\ UNCHANGED <<show_signal, is_open, done, hvars, out, rvars, arr, rendered, calls, last, nlines, nsig>>

\* A plausible slip: a LifoQueue, whose get takes the array put last.
MainGet_lifo ==
    /\ mpc = "get"
    /\ IF q = <<>>
       THEN /\ mpc' = "sleep"
            /\ UNCHANGED <<q, arr, rendered>>
       ELSE /\ arr' = <<q[Len(q)]>>
            /\ q' = SubSeq(q, 1, Len(q) - 1)
            /\ IF show_signal
               THEN /\ rendered' = Append(rendered, q[Len(q)])
                    /\ mpc' = "show"
               ELSE /\ mpc' = "sleep"
                    /\ UNCHANGED rendered
    /\ mout' = <<>>
    /\ UNCHANGED <<show_signal, is_open, done, files, out, enqueued, writes, rvars, calls, last, nlines, nsig>>

\* A plausible slip: the loop empties the queue in one turn and shows only
\* the newest capture.
MainGet_newest ==
    /\ mpc = "get"
    /\ IF q = <<>>
       THEN /\ mpc' = "sleep"
            /\ UNCHANGED <<q, arr, rendered>>
       ELSE /\ arr' = <<q[Len(q)]>>
            /\ q' = <<>>
            /\ IF show_signal
               THEN /\ rendered' = Append(rendered, q[Len(q)])
                    /\ mpc' = "show"
               ELSE /\ mpc' = "sleep"
                    /\ UNCHANGED rendered
    /\ mout' = <<>>
    /\ UNCHANGED <<show_signal, is_open, done, files, out, enqueued, writes, rvars, calls, last, nlines, nsig>>

\* main: arr = q.get(False), then showSignal(arr) is entered when
\* args.show_signal; queue.Empty is caught and passed.
MainGet ==
    /\ mpc = "get"
    /\ IF q = <<>>
       THEN /\ mpc' = "sleep"
            /\ UNCHANGED <<q, arr, rendered>>
       ELSE /\ arr' = <<Head(q)>>
            /\ q' = Tail(q)
            /\ IF show_signal
               THEN /\ rendered' = Append(rendered, Head(q))
                    /\ mpc' = "show"
               ELSE /\ mpc' = "sleep"
                    /\ UNCHANGED rendered
    /\ mout' = <<>>
    /\ UNCHANGED <<show_signal, is_open, done, files, out, enqueued, writes, rvars, calls, last, nlines, nsig>>

\* main: showSignal returns (the window is closed).
MainShowReturn ==
    /\ mpc = "show"
    /\ mpc' = "sleep"
    /\ mout' = <<>>
    /\ UNCHANGED <<show_signal, is_open, done, hvars, out, rvars, arr, rendered, calls, last, nlines, nsig>>

\* main: time.sleep(0.1) returns.
MainSleep ==
    /\ mpc = "sleep"
    /\ mpc' = "loop"
    /\ mout' = <<>>
    /\ UNCHANGED <<show_signal, is_open, done, hvars, out, rvars, arr, rendered, calls, last, nlines, nsig>>

\* main: the with block is left; ReaderThread.__exit__ calls close(), whose
\* stop() clears alive.
MainClose ==
    /\ mpc = "close"
    /\ alive' = FALSE
    /\ mpc' = "join"
    /\ mout' = <<>>
    /\ UNCHANGED <<show_signal, is_open, done, hvars, out, rpc, error, writing, arr, rendered, calls, last, nlines, nsig>>

\* main: stop() has joined the reader thread within the two seconds of its
\* join(2); close() closes the port and main ends.
MainJoin ==
    /\ mpc = "join"
    /\ rpc = "exited"
    /\ mpc' = "exited"
    /\ is_open' = FALSE
    /\ mout' = <<>>
    /\ UNCHANGED <<show_signal, done, hvars, out, rvars, arr, rendered, calls, last, nlines, nsig>>

\* main: the join(2) of stop() times out with the reader thread still at
\* work; close() closes the port, main ends and the process exits, which ends
\* the reader thread (a daemon thread) where it stands.
MainJoinTimeout ==
    /\ mpc = "join"
    /\ rpc \notin {"exited", "killed"}
    /\ mpc' = "exited"
    /\ is_open' = FALSE
    /\ rpc' = "killed"
    /\ mout' = <<>>
    /\ UNCHANGED <<show_signal, done, hvars, out, alive, error, writing, arr, rendered,
                   calls, last, nlines, nsig>>

Next ==
    \/ \E line \in Lines : ReaderReceive(line)
    \/ onDataReturn
    \/ ReaderSerialError
    \/ ReaderStopped
    \/ connection_lost
    \/ signal_handler
    \/ MainLoop
    \/ MainGet
    \/ MainShowReturn
    \/ MainSleep
    \/ MainClose
    \/ MainJoin
    \/ MainJoinTimeout

Spec == Init /\ [][Next]_vars

\* The program under the scheduling the interpreter gives: the main thread
\* goes on with its next statement, the join of stop() ends one way or the
\* other, and the reader thread goes on with the handler it is in, leaves its
\* loop once alive is false and runs its connection_lost callback. Nothing is
\* assumed of the link (lines, errors), of the interrupt, or of the window
\* of showSignal being closed.
FairSpec ==
    /\ Spec
    /\ WF_vars(MainLoop)
    /\ WF_vars(MainGet)
    /\ WF_vars(MainSleep)
    /\ WF_vars(MainClose)
    /\ WF_vars(MainJoin \/ MainJoinTimeout)
    /\ WF_vars(onDataReturn)
    /\ WF_vars(ReaderStopped)
    /\ WF_vars(connection_lost)

\* ------------------------------------------------------------------ claims
\* The vocabulary of the claims, stated on the line as it is on the wire.

HasSpace(line) == \E i \in 1..Len(line) : line[i] = SP

\* The text before the first space, and the text after it.
TagOf(line) == SubSeq(line, 1, FirstSpace(line) - 1)
PayloadOf(line) == SubSeq(line, FirstSpace(line) + 1, Len(line))

IsDataLine(line) == HasSpace(line) /\ TagOf(line) = <<"DATA">>

\* The payload is a run of integers, an even number of them.
EvenInts(p) ==
    /\ \A i \in 1..Len(Fields(p)) : IsInt(Fields(p)[i])
    /\ Len(Fields(p)) % 2 = 0

\* The payload has an odd number of tokens or a token that is no integer.
FailsToDecode(p) ==
    \/ \E i \in 1..Len(Fields(p)) : ~IsInt(Fields(p)[i])
    \/ Len(Fields(p)) % 2 = 1

\* The (timestamp, state) pairs of a payload, in the order sent.
Pairs(p) ==
    [i \in 1..(Len(Fields(p)) \div 2) |->
        <<IntOf(Fields(p)[2 * i - 1]), IntOf(Fields(p)[2 * i])>>]

\* A step of the reader thread that handled a line (the line is last').
Handled == nlines' = nlines + 1

\* C1: whenever connection_lost has run, the flag the poll loop reads is true.
C1_ConnectionLostSetsFlag == rpc = "exited" => done

\* C2: after a DATA line whose payload fails to decode, the reader thread is
\* still in its loop, ready for the next line.
C2_ReaderSurvivesDecodeError ==
    [][(Handled /\ IsDataLine(last') /\ FailsToDecode(PayloadOf(last')))
          => rpc' = "run"]_vars

\* C3: a DATA payload with an odd number of tokens or a token that is no
\* integer reaches onData and changes neither the stored files nor the queue.
C3_BadPayloadChangesNothing ==
    [][(Handled /\ IsDataLine(last') /\ FailsToDecode(PayloadOf(last')))
          => /\ calls' = <<"onData">>
             /\ files' = files
             /\ writes' = writes
             /\ q' = q
             /\ enqueued' = enqueued]_vars

\* C3 witness: a payload of three integers was refused while a capture was
\* stored and another waited on the queue.
C3_Witness ==
    /\ last = <<"DATA", SP, "0", SP, "1", SP, "100">>
    /\ calls = <<"onData">>
    /\ writes = 1
    /\ Len(q) = 1

\* C4: once the interrupt handler has run, the test of the poll loop never
\* starts another iteration: from the test the main thread goes to the exit.
C4_NoIterationAfterInterrupt ==
    [][(nsig > 0 /\ mpc = "loop") => mpc' \in {"loop", "close"}]_vars

\* C4 witness: the loop was left after an interrupt while a capture waited.
C4_Witness == nsig > 0 /\ mpc = "close" /\ q # <<>>

\* C5: a line with a tag and a payload invokes exactly one handler, the one
\* its tag names: LOG the log handler, DATA the capture handler, any other tag
\* the unknown handler.
C5_OneHandlerByTag ==
    [][(Handled /\ HasSpace(last'))
          => calls' = << IF TagOf(last') = <<"LOG">> THEN "onLog"
                         ELSE IF TagOf(last') = <<"DATA">> THEN "onData"
                         ELSE "onUnknown" >>]_vars

\* C5 witness: the second line of a run was dispatched to the capture handler.
C5_Witness == nlines = 2 /\ calls = <<"onData">> /\ writes = 1

\* The line splits, at its first run of spaces, into a tag that is not empty
\* and a payload that is not empty.
TwoNonEmptyParts(line) ==
    /\ HasSpace(line)
    /\ TagOf(line) # <<>>
    /\ Fields(PayloadOf(line)) # <<>>

\* C6 as stated: a line that does not split into two parts that are not empty
\* is dropped: no handler, no output, no change of state.
C6_DroppedUnlessTwoNonEmptyParts ==
    [][(Handled /\ ~TwoNonEmptyParts(last'))
          => /\ calls' = <<>>
             /\ out' = <<>>
             /\ UNCHANGED <<hvars, done, rvars>>]_vars

\* C6 as amended: a line is dropped (no handler, no output, no change of
\* state) exactly when it holds no space character; a line with a space is
\* dispatched to one handler even when its tag or its payload is empty.
C6_DroppedIffNoSpace ==
    [][Handled
          => IF HasSpace(last')
             THEN Len(calls') = 1
             ELSE /\ calls' = <<>>
                  /\ out' = <<>>
                  /\ UNCHANGED <<hvars, done, rvars>>]_vars

\* C6 witness: a line without a space was dropped after a capture was stored.
C6_Witness ==
    /\ nlines = 2
    /\ ~HasSpace(last)
    /\ calls = <<>>
    /\ out = <<>>
    /\ writes = 1

C8_LogAndUnknownChangeNothing ==
    [][(Handled /\ HasSpace(last') /\ TagOf(last') # <<"DATA">>)
          => /\ files' = files
             /\ writes' = writes
             /\ q' = q
             /\ done' = done
             /\ rpc' = "run"]_vars

\* C8 witness: a line with an unrecognized tag was handled while a capture
\* was stored and waited on the queue.
C8_Witness ==
    /\ last = <<"FOO", SP, "hello">>
    /\ calls = <<"onUnknown">>
    /\ writes = 1
    /\ Len(q) = 1
    /\ rpc = "run"

\* C9: the arrays passed to showSignal, followed by the arrays that wait on
\* the queue, are the arrays the reader put, in the order it put them.
C9_FifoNothingLost == enqueued = rendered \o q

\* C9 witness: one capture was rendered while a different one waits.
C9_Witness ==
    /\ Len(rendered) = 1
    /\ Len(q) = 1
    /\ rendered[1] # q[1]

\* C10 as stated: the captures waiting on the queue stay below a capacity,
\* however many DATA messages the link delivers.
C10_QueueBounded == Len(q) < MaxLines

\* C10 as amended: the queue has no capacity: with show_signal set every
\* DATA payload of an even number of integers makes the queue one longer,
\* whatever its length.
C10_PutAlwaysGrows ==
    [][/\ (Handled /\ IsDataLine(last') /\ EvenInts(PayloadOf(last')))
           => rpc' = "writing"
       /\ (rpc = "writing" /\ rpc' = "run" /\ show_signal)
           => Len(q') = Len(q) + 1]_vars

\* C10 witness: every line the link delivered left a capture on the queue.
C10_Witness == Len(q) = MaxLines /\ nlines = MaxLines

\* C13: the flag done is false at start and no step takes it from true back
\* to false: a second interrupt, and an interrupt after the connection was
\* lost, leave it true.
C13_FlagMonotone == (done = FALSE) /\ [][done => done']_vars

\* C13 witness: two interrupts were delivered, the second one after the
\* first had set the flag, and the reader has gone through connection_lost.
C13_Witness ==
    /\ nsig = 2
    /\ rpc = "exited"
    /\ error = "SerialException"
    /\ done

\* The process has stopped: main has left the with block, the port is closed
\* and the reader thread is over.
Stopped ==
    /\ mpc = "exited"
    /\ ~is_open
    /\ rpc \in {"exited", "killed"}

\* Every call of showSignal returns: main is not inside one for ever.
RenderReturns == []<>(mpc # "show")

\* C11 as stated: once an interrupt was delivered the process stops: main
\* leaves its loop, the port is closed and the reader thread is over.
C11_InterruptLeadsToStopped == (nsig > 0) ~> Stopped

\* C11 as amended: provided every call of showSignal returns, once an
\* interrupt was delivered the process stops: main leaves its loop, the port
\* is closed and the reader thread is over.
C11_StopsOnceRenderReturns == RenderReturns => ((nsig > 0) ~> Stopped)

\* C11 witness: the process has stopped after one interrupt that came when a
\* capture had been shown, with the reader thread joined in time.
C11_Witness ==
    /\ Stopped
    /\ nsig = 1
    /\ Len(rendered) = 1
    /\ rpc = "exited"

\* The payload has, in a state position (every second token), an integer
\* that is neither 0 nor 1.
StateOutOfRange(p) ==
    \E i \in 1..Len(Fields(p)) :
        /\ i % 2 = 0
        /\ IsInt(Fields(p)[i])
        /\ IntOf(Fields(p)[i]) \notin {0, 1}

\* C12 as stated: a DATA payload with a state value outside {0, 1} is
\* rejected: no file is opened or written and nothing is put on the queue.
C12_OutOfRangeStateRejected ==
    [][/\ (Handled /\ IsDataLine(last') /\ StateOutOfRange(PayloadOf(last')))
           => (files' = files /\ writing' = <<>> /\ q' = q)
       /\ (rpc = "writing" /\ StateOutOfRange(PayloadOf(last)))
           => (files' = files /\ q' = q)]_vars

\* C12 as amended: a state value outside {0, 1} is no ground for rejection.
\* A DATA payload holding one is written exactly when it is an even number of
\* integers: the file then holds the pairs with the state value as sent, and
\* the array is put on the queue when show_signal is set; otherwise the
\* payload is refused and files and queue stay as they were.
C12_OutOfRangeStatePassedThrough ==
    [][/\ (Handled /\ IsDataLine(last') /\ StateOutOfRange(PayloadOf(last')))
           => IF EvenInts(PayloadOf(last'))
              THEN rpc' = "writing" /\ writing' # <<>>
              ELSE files' = files /\ writing' = <<>> /\ q' = q
       /\ (rpc = "writing" /\ rpc' = "run" /\ StateOutOfRange(PayloadOf(last)))
           => /\ files'[filename(writing[1])] = Pairs(PayloadOf(last))
              /\ \E k \in 1..Len(files'[filename(writing[1])]) :
                     files'[filename(writing[1])][k][2] \notin {0, 1}
              /\ q' = IF show_signal THEN Append(q, Pairs(PayloadOf(last))) ELSE q]_vars

\* C12 witness: a capture with the state value 7 is stored and waits on the
\* queue.
C12_Witness ==
    /\ StateOutOfRange(PayloadOf(last))
    /\ rpc = "run"
    /\ \E n \in DOMAIN files : \E k \in 1..Len(files[n]) : files[n][k][2] = 7
    /\ \E k \in 1..Len(q) : \E j \in 1..Len(q[k]) : q[k][j][2] = 7

\* The line has a tag that is neither LOG nor DATA.
IsUnknownLine(line) == HasSpace(line) /\ TagOf(line) \notin {<<"LOG">>, <<"DATA">>}

\* The text t occurs in the text s.
Occurs(t, s) ==
    \E i \in 0..(Len(s) - Len(t)) : SubSeq(s, i + 1, i + Len(t)) = t

\* C14 as stated: for a tag that is neither LOG nor DATA the unknown handler
\* is given the tag with the payload, and what it prints shows the tag.
C14_UnknownNamesTag ==
    [][(Handled /\ IsUnknownLine(last') /\ TagOf(last') # <<>>)
          => /\ calls' = <<"onUnknown">>
             /\ Len(out') = 1
             /\ Occurs(TagOf(last'), out'[1].arg)]_vars

\* C14 as amended: for a tag that is neither LOG nor DATA the unknown handler
\* is given the payload alone, and what it prints is "Unknown " followed by
\* the payload as sent: the tag is not part of it.
C14_UnknownEchoesPayloadOnly ==
    [][(Handled /\ IsUnknownLine(last'))
          => /\ calls' = <<"onUnknown">>
             /\ out' = <<Msg("Unknown {}", PayloadOf(last'))>>]_vars

\* C14 witness: the line "FOO hello" was handled, and the notice printed
\* holds "hello" and not "FOO".
C14_Witness ==
    /\ last = <<"FOO", SP, "hello">>
    /\ calls = <<"onUnknown">>
    /\ out = <<Msg("Unknown {}", <<"hello">>)>>
    /\ ~Occurs(<<"FOO">>, out[1].arg)

\* C15: with no write in progress there are as many stored files as DATA
\* messages that were written: every capture went to a name of its own and
\* none took the place of an earlier one.
C15_OneFilePerCapture == (writing = <<>>) => (Cardinality(DOMAIN files) = writes)

\* C16: showSignal is called by the main thread alone, in the step that took
\* the capture from the queue and in no step of the reader thread; and while
\* a call of showSignal is in progress the reader thread's next step is free
\* to happen: in its loop it takes the next line, inside onData it finishes
\* the file and puts the array on the queue.
C16_RenderOnlyInMainReaderNeverWaits ==
    /\ [][(rendered' # rendered)
             => /\ mpc = "get" /\ mpc' = "show"
                /\ UNCHANGED <<rvars, out, calls, last, nlines, files, writes>>]_vars
    /\ [](mpc = "show"
             => /\ (rpc = "run" /\ alive /\ nlines < MaxLines)
                    => \A line \in Lines : ENABLED ReaderReceive(line)
                /\ (rpc = "writing") => ENABLED onDataReturn)

\* C16 witness: a call of showSignal is in progress while the reader thread,
\* inside onData, is writing the file of the next capture.
C16_Witness ==
    /\ mpc = "show"
    /\ Len(rendered) = 1
    /\ rpc = "writing"
    /\ nlines = 2

\* C17: main has not left the with block, and the process has not ended,
\* while onData is inside numpy.savetxt: a write that was started is finished
\* before the process stops.
C17_NoStopDuringWrite == (mpc = "exited") => (writing = <<>>)

\* C18: lines are handled one at a time and in the order of arrival: a line
\* is taken from the link only when the reader is in its loop with no
\* handler at work, and from the moment onData has started until it returns
\* no further line is taken; when a handler fails the loop is over and no
\* line follows.
C18_OneLineAtATime ==
    /\ [][Handled => (rpc = "run" /\ writing = <<>>)]_vars
    /\ [][(rpc # "run") => (nlines' = nlines /\ last' = last /\ calls' = calls)]_vars
    /\ [][(rpc = "writing" /\ rpc' \notin {"writing", "killed"})
             => (rpc' = "run" /\ writes' = writes + 1)]_vars

\* C18 witness: the second line is in the hands of onData after the first
\* capture was written, its handler having returned.
C18_Witness ==
    /\ nlines = 2
    /\ writes = 1
    /\ rpc = "writing"

\* C19: with show_signal set and every call of showSignal returning, each
\* capture the reader has put on the queue is in time taken and shown by
\* main, unless shutdown is requested first; and main takes one capture at
\* most in one turn of its loop: a capture is shown only in the get of a
\* turn, one capture leaves the queue for it, and the turn goes on to its
\* sleep and to the test of the flag before the next get.
C19_EveryCaptureShown ==
    /\ [][(rendered' # rendered)
             => /\ mpc = "get" /\ mpc' = "show"
                /\ q # <<>> /\ q' = Tail(q)
                /\ rendered' = Append(rendered, Head(q))]_vars
    /\ [][/\ (mpc = "show") => (mpc' \in {"show", "sleep"})
          /\ (mpc = "sleep") => (mpc' \in {"sleep", "loop"})]_vars
    /\ (show_signal /\ RenderReturns)
          => \A k \in 1..MaxLines :
                 (Len(enqueued) >= k) ~> (Len(rendered) >= k \/ done)

\* C19 witness: with show_signal set and no interrupt, two captures were put
\* on the queue, waited there together, and both have been shown.
C19_Witness ==
    /\ show_signal
    /\ nsig = 0
    /\ ~done
    /\ Len(enqueued) = 2
    /\ Len(rendered) = 2
    /\ mpc = "loop"

\* C20: a capture waits on the queue only when show_signal is set, and every
\* capture main takes from the queue is handed to showSignal in that same
\* step: none is taken and dropped.
C20_QueuedOnlyToBeShown ==
    /\ [](q # <<>> => show_signal)
    /\ [](arr # <<>> => (rendered # <<>> /\ rendered[Len(rendered)] = arr[1]))
    /\ [][(q # <<>> /\ q' = Tail(q)) => rendered' = Append(rendered, Head(q))]_vars

\* C20 witness: main has taken a capture and is showing it while another
\* waits on the queue.
C20_Witness ==
    /\ show_signal
    /\ arr # <<>>
    /\ mpc = "show"
    /\ q # <<>>
    /\ rendered[Len(rendered)] = arr[1]

====
